---- MODULE Spec2Model ----
(***************************************************************************)
(* onebot-go: the event dispatcher (pkg/event) and the single-connection   *)
(* WebSocket server with its request/response correlation                 *)
(* (internal/server/bot_server.go), as state machines.                     *)
(*                                                                         *)
(* SpecDispatch: Register / Use / Dispatch of the event dispatcher.        *)
(* SpecConn:     HandlerWebsocket (accept, read loop, cleanup).            *)
(* SpecServer:   HandlerWebsocket and CallAPI.                             *)
(* SpecCall:     CallAPI on one connection, every response status.        *)
(* SpecRead:     the read loop's classification of inbound messages.      *)
(* SpecRace:     a Register call racing a Dispatch over a shared array.   *)
(* SpecTimeout:  Dispatch with handler bodies under TimeoutMiddleware.    *)
(* SpecTies:     Register and Dispatch with thirteen handlers.            *)
(* SpecAsync:    Dispatch in synchronous and asynchronous mode.           *)
(* SpecChain:    invokeHandler under chains of middlewares.               *)
(* FairRate:     calls through a RateLimitMiddleware, fair ticker.        *)
(* SpecLoop:     the read loop dispatching to handlers that call the API. *)
(* FairCall:     HandlerWebsocket and CallAPI, fair timers and callers.   *)
(* SpecShare:    successive dispatches, what each leaves to the next.     *)
(* SpecOrder:    the read loop's synchronous dispatches in sequence.      *)
(***************************************************************************)
EXTENDS Integers, Sequences, FiniteSets, TLC

\* ------------------------------------------------------------------ bounds
\* total number of Register calls explored
MaxHandlers == 2
\* number of Use calls explored
MaxMiddlewares == 1
\* length of the middleware lists SpecChain starts from
MaxChain == 2
\* number of goroutines that call a RateLimitMiddleware
MaxCallers == 3

\* number of connections the peer opens
MaxConns == 3
\* number of CallAPI invocations
MaxCalls == 2

\* ------------------------------------------------------------------ inputs
\* priorities handed to Register (lower number runs first)
Priorities == {1, 2}
\* handler names (diagnostics only, duplicates allowed)
Names == {"A", "B"}
\* the type parameter T of Register[T]: interface{} or *types.MessageEvent
HandlerTypes == {"any", "Message"}
\* what the body of a handler's Handle does with its context
\* ("set": Set and return nil, as MessageLogHandler does; "setAbort": Set, Abort
\* and return nil, as MessageFilterHandler does)
Behaviours == {"ok", "err", "set", "setAbort", "panicErr", "panicStr"}
\* the middlewares Use can add
MiddlewareKinds == {"logging", "recovery", "filter"}
\* the middlewares of the chains SpecChain starts from
ChainKinds == MiddlewareKinds \cup {"metrics"}
\* the one metadata key handlers write and read
MetaKey == "x"

VARIABLES
    \* Dispatcher
    handlers,       \* d.handlers: type key -> [arr: backing array prefix, cap]
    middlewares,    \* d.middlewares
    errorHandlerSet,\* d.errorHandler != nil (NewDispatcher installs the logging sink)
    mu,             \* d.mu: "free" or "locked" (write-locked by register)
    nreg,           \* number of Register calls so far (registration stamp)
    regKey,         \* register in progress: the event type being sorted ("" = none)
    regJ,           \* register in progress: position of the appended element
    \* one dispatch task
    dPc,            \* "idle" | "running" | "invoking" | "done" ("invoking": inside
                    \* an invokeHandler whose handler body runs as its own step)
    dKey,           \* reflect.TypeOf(event)
    wrappers,       \* the slice taken under RLock: [len, detached, copy]
    dIdx,           \* loop position of dispatchToHandlers (next index, 1-based)
    trace,          \* one record per invokeHandler call of this dispatch
    sink,           \* calls of d.errorHandler of this dispatch: handler names
    raced,          \* a register touched this dispatch's backing array meanwhile
    last,           \* what the invokeHandler call made by Invoke did and returned
    async,          \* d.async
    caller,         \* the caller of the Dispatch in progress: "idle" (none),
                    \* "blocked" (inside Dispatch), "nil" (Dispatch returned nil
                    \* while the task it started goes on)
    rate,           \* one RateLimitMiddleware and the calls made through it:
                    \* [st: per caller "out", "waiting" (parked in <-ticker.C),
                    \* "admitted" (past the receive) or "called" (inside next),
                    \* nexts: per caller how often this call invoked next,
                    \* buf: ticks buffered in ticker.C (capacity 1),
                    \* waiting: the parked callers, first come first,
                    \* passed: receives completed since the last tick]
    exec            \* the executions of handler bodies started by this dispatch,
                    \* in the order invokeHandler started them: [st, ret, timed,
                    \* sel] (timed: the chain was built with a TimeoutMiddleware;
                    \* sel: what the waiting invokeHandler was woken by, "done"
                    \* or "timer", "none" while it waits)

VARIABLES
    \* WSServer
    activeClient,   \* s.activeClient: a connection or NoConn (nil)
    connected,      \* s.connected
    clientMu,       \* s.clientMu: NoConn (free) or the connection handler holding Lock
    pendingCalls,   \* s.pendingCalls: the echo tokens that have an entry
    \* connections and their HandlerWebsocket goroutines
    hPc,            \* per connection: position of HandlerWebsocket
    closed,         \* per connection: Close() has been called on it
    \* CallAPI invocations (call k uses echo token k and channel respChan[k])
    cPc,            \* per call: position of CallAPI ("expired": in the select,
                    \* timer fired)
    conn,           \* per call: the local variable conn (NoConn once returned)
    respChan,       \* per call: [buf: values buffered (capacity 1), closed]
                    \* (the channel is dropped, EmptyChan, once CallAPI returned)
    result,         \* per call: what CallAPI returned ("none" while running)
    respErr,        \* per call: the error returned along with a response ("nil":
                    \* no error; "none" while no response has been returned)
    \* history
    inTime,         \* per call: a read loop matched a response to its token
                    \* before the call's timer fired
    dropped,        \* a read loop dropped a response whose entry had left the table
    fallback,       \* a read loop's send to a response channel found it full
    rlog,           \* what a read loop made of the message it read last
    \* handlers that call the API
    loop            \* [by: per call "none" (a caller outside the dispatcher),
                    \* "sync" or "async" (a handler invoked by a Dispatch in that
                    \* mode issues it), running: per connection the call its read
                    \* loop's handler is making (NoCallId: none), wire: per
                    \* connection the responses the peer has sent and the read
                    \* loop has not read, sent: per call whether the peer has
                    \* sent its response ("no", "inTime": before the call's timer
                    \* fired, "late")]

svars == <<activeClient, connected, clientMu, pendingCalls, hPc, closed,
           cPc, conn, respChan, result, respErr, inTime, dropped, fallback,
           rlog>>

dvars == <<handlers, middlewares, errorHandlerSet, mu, nreg, regKey, regJ,
           dPc, dKey, wrappers, dIdx, trace, sink, raced, last, async, caller, rate,
           exec>>

\* a dispatcher that keeps every handler under one key
TypeKeyShared(t) == "nil"

\* reflect.TypeOf(zero value of T): nil for an interface type
TypeKey(t) == IF t = "any" THEN "nil" ELSE t

\* dynamic types of the events handed to Dispatch (a nil event has type nil)
EventTypes == {"nil", "Message", "Notice"}

NoSlice == [arr |-> <<>>, cap |-> 0]

\* no invokeHandler call observed
NoCall == [did |-> "none"]

\* the goroutines that call the RateLimitMiddleware
Callers == 1..MaxCallers

\* RateLimitMiddleware(maxPerSecond), maxPerSecond > 0: a new ticker, nothing in
\* its channel before the first interval has passed
NewRateLimit ==
    [st |-> [c \in Callers |-> "out"], nexts |-> [c \in Callers |-> 0],
     buf |-> 0, waiting |-> <<>>, passed |-> 0]

\* ------------------------------------------------------------------ NewDispatcher
InitDispatcher ==
    /\ handlers = [k \in EventTypes |-> NoSlice]
    /\ middlewares = <<>>
    /\ errorHandlerSet = TRUE
    /\ mu = "free"
    /\ nreg = 0
    /\ regKey = ""
    /\ regJ = 0
    /\ dPc = "idle"
    /\ dKey = ""
    /\ wrappers = [len |-> 0, detached |-> FALSE, copy |-> <<>>]
    /\ dIdx = 0
    /\ trace = <<>>
    /\ sink = <<>>
    /\ raced = FALSE
    /\ last = NoCall
    /\ async = FALSE
    /\ caller = "idle"
    /\ rate = NewRateLimit
    /\ exec = <<>>

\* ------------------------------------------------------------------ register
\* append's capacity for a full slice (doubling for small slices)
GrowCap(cap) == IF cap = 0 THEN 1 ELSE 2 * cap

\* a register that turns down a name already in the list
AppendUnlessNamed(s, w) ==
    IF \E j \in 1..Len(s.arr) : s.arr[j].name = w.name
    THEN s
    ELSE [arr |-> Append(s.arr, w),
          cap |-> IF Len(s.arr) < s.cap THEN s.cap ELSE 2 * s.cap + 1]

\* append(d.handlers[eventType], w): in place when capacity allows, else a new array
AppendSlice(s, w) ==
    IF Len(s.arr) < s.cap
    THEN [arr |-> Append(s.arr, w), cap |-> s.cap]
    ELSE [arr |-> Append(s.arr, w), cap |-> GrowCap(s.cap)]

\* the dispatch in flight iterates the backing array of d.handlers[key]
SharesArray(key) ==
    dPc \in {"running", "invoking"} /\ dKey = key /\ ~wrappers.detached

SwapAt(arr, j) == [arr EXCEPT ![j] = arr[j - 1], ![j - 1] = arr[j]]

\* Less the wrong way round
LessReversed(a, b) == a.priority > b.priority

\* the comparison handed to sort.Slice
Less(a, b) == a.priority < b.priority

\* register, up to the start of sort.Slice: Lock, append
RegisterAppend(t, name, prio) ==
    LET key == TypeKey(t)
        s   == handlers[key]
        w   == [typ |-> t, priority |-> prio, name |-> name, seq |-> nreg + 1]
        inPlace == Len(s.arr) < s.cap
    IN  /\ mu = "free"
        /\ regKey = ""
        /\ nreg < MaxHandlers
        /\ mu' = "locked"
        /\ nreg' = nreg + 1
        /\ handlers' = [handlers EXCEPT ![key] = AppendSlice(s, w)]
        /\ regKey' = key
        /\ regJ' = Len(s.arr) + 1
        /\ IF SharesArray(key) /\ ~inPlace
           THEN wrappers' = [wrappers EXCEPT !.detached = TRUE, !.copy = s.arr]
           ELSE UNCHANGED wrappers
        /\ raced' = (raced \/ (SharesArray(key) /\ inPlace))
        /\ UNCHANGED <<middlewares, errorHandlerSet, dPc, dKey, dIdx, trace, sink>>
        /\ UNCHANGED <<last, async, caller, exec, svars, rate, loop>>

\* ------------------------------------------------------------------ sort.Slice
\* sort.Slice(d.handlers[eventType], less) is the library's pattern-defeating
\* quicksort: slices of up to MaxInsertion elements are insertion-sorted, longer
\* ones are partitioned around a pivot first. The operators below follow it for
\* slices of up to MaxInsertion + 1 elements (both sides of the partition are
\* then insertion-sorted).
MaxInsertion == 12

Swap(arr, i, j) == [arr EXCEPT ![i] = arr[j], ![j] = arr[i]]

\* for j := i; j > a && less(data[j], data[j-1]); j-- { swap(j, j-1) }
RECURSIVE SiftDown(_, _)
SiftDown(arr, j) ==
    IF j > 1 /\ Less(arr[j], arr[j - 1]) THEN SiftDown(SwapAt(arr, j), j - 1) ELSE arr

RECURSIVE InsertionSortFrom(_, _)
InsertionSortFrom(arr, i) ==
    IF i > Len(arr) THEN arr ELSE InsertionSortFrom(SiftDown(arr, i), i + 1)

InsertionSort(arr) == InsertionSortFrom(arr, 2)

\* order2: the two positions by element order, and whether they were swapped
Order2(arr, x, y) ==
    IF Less(arr[y], arr[x]) THEN [a |-> y, b |-> x, swaps |-> 1]
                            ELSE [a |-> x, b |-> y, swaps |-> 0]

\* choosePivot for 8 <= n < 50: the median of the elements at the quarter
\* positions, and the hint drawn from the number of swaps that took
ChoosePivot(arr) ==
    LET q  == Len(arr) \div 4
        o1 == Order2(arr, q + 1, 2 * q + 1)
        o2 == Order2(arr, o1.b, 3 * q + 1)
        o3 == Order2(arr, o1.a, o2.a)
        swaps == o1.swaps + o2.swaps + o3.swaps
    IN  [pivot |-> o3.b, hint |-> IF swaps = 0 THEN "increasing" ELSE "unknown"]

\* partialInsertionSort for n < 50: true (nothing to do) exactly when no element
\* is less than its predecessor, false otherwise without touching the slice
PartialInsertionSort(arr) == \A i \in 2..Len(arr) : ~Less(arr[i], arr[i - 1])

\* for i <= j && less(data[i], data[a]) { i++ }
RECURSIVE ScanUp(_, _, _)
ScanUp(arr, i, j) == IF i <= j /\ Less(arr[i], arr[1]) THEN ScanUp(arr, i + 1, j) ELSE i

\* for i <= j && !less(data[j], data[a]) { j-- }
RECURSIVE ScanDown(_, _, _)
ScanDown(arr, i, j) == IF i <= j /\ ~Less(arr[j], arr[1]) THEN ScanDown(arr, i, j - 1) ELSE j

RECURSIVE PartitionLoop(_, _, _)
PartitionLoop(arr, i0, j0) ==
    LET i == ScanUp(arr, i0, j0)
        j == ScanDown(arr, i, j0)
    IN  IF i > j
        THEN [arr |-> Swap(arr, j, 1), mid |-> j]
        ELSE PartitionLoop(Swap(arr, i, j), i + 1, j - 1)

\* partition: the pivot goes to the front, smaller elements are gathered on the
\* left and the others on the right, the pivot is put between them
Partition(arr, pivot) == PartitionLoop(Swap(arr, 1, pivot), 2, Len(arr))

\* pdqsort of a whole slice (a = 0, so no partitionEqual)
PdqSort(arr) ==
    IF Len(arr) <= MaxInsertion
    THEN InsertionSort(arr)
    ELSE LET c == ChoosePivot(arr)
         IN  IF c.hint = "increasing" /\ PartialInsertionSort(arr)
             THEN arr
             ELSE LET p == Partition(arr, c.pivot)
                  IN  InsertionSort(SubSeq(p.arr, 1, p.mid - 1))
                        \o << p.arr[p.mid] >>
                        \o InsertionSort(SubSeq(p.arr, p.mid + 1, Len(p.arr)))

\* register, sort.Slice, then Unlock and return nil. Up to MaxInsertion elements
\* it is an insertion sort on a slice whose prefix is sorted: the appended
\* element is swapped down, one step at a time, while it is less than its
\* predecessor. A longer slice is sorted in one step.
RegisterSort ==
    /\ regKey # ""
    /\ LET arr == handlers[regKey].arr
       IN  IF Len(arr) > MaxInsertion
           THEN /\ handlers' = [handlers EXCEPT ![regKey].arr = PdqSort(arr)]
                /\ mu' = "free"
                /\ regKey' = ""
                /\ regJ' = 0
           ELSE IF regJ > 1 /\ Less(arr[regJ], arr[regJ - 1])
           THEN /\ handlers' = [handlers EXCEPT ![regKey].arr = SwapAt(arr, regJ)]
                /\ regJ' = regJ - 1
                /\ UNCHANGED <<mu, regKey>>
           ELSE /\ mu' = "free"
                /\ regKey' = ""
                /\ regJ' = 0
                /\ UNCHANGED handlers
    /\ UNCHANGED <<middlewares, errorHandlerSet, nreg, dPc, dKey, wrappers, dIdx,
                   trace, sink, raced>>
    /\ UNCHANGED <<last, async, caller, exec, svars, rate, loop>>

\* SetAsync: d.async = async
SetAsync(b) ==
    /\ async' = b
    /\ UNCHANGED <<handlers, middlewares, errorHandlerSet, mu, nreg, regKey, regJ,
                   dPc, dKey, wrappers, dIdx, trace, sink, raced, last, caller,
                   exec>>
    /\ UNCHANGED <<svars, rate, loop>>

\* Use: append a middleware
Use(m) ==
    /\ Len(middlewares) < MaxMiddlewares
    /\ middlewares' = Append(middlewares, m)
    /\ UNCHANGED <<handlers, errorHandlerSet, mu, nreg, regKey, regJ,
                   dPc, dKey, wrappers, dIdx, trace, sink, raced>>
    /\ UNCHANGED <<last, async, caller, exec, svars, rate, loop>>

\* ------------------------------------------------------------------ Context
\* a Context that an earlier call has written to and aborted
UsedContext == [Metadata |-> {"x"}, aborted |-> TRUE, server |-> "nil"]

\* the Context built by invokeHandler for one handler call
NewContext == [Metadata |-> {}, aborted |-> FALSE, server |-> "nil"]

\* Context.GetServer(): nil when c.server is nil
GetServer(c) == c.server

\* Context.Reply: an error when GetServer() is nil, otherwise a send through it
Reply(c) == IF GetServer(c) = "nil" THEN "server not available" ELSE "sent"

\* Context.Set(key, _)
Set(c, key) == [c EXCEPT !.Metadata = c.Metadata \cup {key}]

\* Context.Get(key): the ok flag
Get(c, key) == key \in c.Metadata

\* Context.Abort()
Abort(c) == [c EXCEPT !.aborted = TRUE]

\* ------------------------------------------------------------------ invokeHandler
\* handleMethod.Call with a *Context[interface{}] argument: reflect accepts the
\* argument only when the handler's Handle takes *Context[interface{}]
ReflectCallable(w) == w.typ = "any"

\* finalHandler: the reflect call of Handle on eventCtx. ret is "nil", "err", or a
\* panic in flight ("panicErr" carries an error value, "panicStr" any other value)
\* order is the sequence of steps of the call: a middleware's code before its
\* call of next ("enter"), the handler body ("handler"), a middleware's code
\* after next returned or its deferred function ("exit"); pos is the
\* middleware's index in d.middlewares. pred is what a Filter's predicate said.
FinalHandler(w, b, c) ==
    IF ~ReflectCallable(w)
    THEN [ret |-> "panicStr", ctx |-> c, did |-> "reflectPanic", saw |-> FALSE,
          sawAbort |-> FALSE,
          recovered |-> FALSE, order |-> <<>>, pred |-> "none"]
    ELSE [ret |-> CASE b = "err" -> "err"
                    [] b = "panicErr" -> "panicErr"
                    [] b = "panicStr" -> "panicStr"
                    [] OTHER -> "nil",
          ctx |-> CASE b = "set" -> Set(c, MetaKey)
                    [] b = "setAbort" -> Abort(Set(c, MetaKey))
                    [] OTHER -> c,
          did |-> b,
          saw |-> Get(c, MetaKey),
          sawAbort |-> c.aborted,
          recovered |-> FALSE,
          order |-> << [ev |-> "handler", pos |-> 0] >>,
          pred |-> "none"]

\* a loop that wraps in Use order, leaving the last middleware outermost
ApplyFirstInnermost(mws) ==
    [k \in 1..Len(mws) |-> [kind |-> mws[Len(mws) + 1 - k], pos |-> Len(mws) + 1 - k]]

\* for i := len(middlewares) - 1; i >= 0; i-- { handler = middlewares[i](handler) }:
\* each round puts middleware i around what has been built
RECURSIVE WrapFrom(_, _, _)
WrapFrom(mws, i, layers) ==
    IF i < 1
    THEN layers
    ELSE WrapFrom(mws, i - 1, << [kind |-> mws[i], pos |-> i] >> \o layers)

\* applyMiddlewares: the layers around finalHandler, the outermost first
ApplyMiddlewares(mws) == WrapFrom(mws, Len(mws), <<>>)

Panics(r) == r.ret \in {"panicErr", "panicStr"}

\* the code of a middleware after its call of next: skipped when next panicked
After(r, step) == IF Panics(r) THEN r.order ELSE Append(r.order, step)

\* a Filter that lets every call through
FilterAdmitsAll(pass) == TRUE

\* if !filter(ctx) { Abort; return nil }
FilterAdmits(pass) == pass

\* a middleware that logs the error and returns nil
ErrorSwallowed(ret) == IF ret = "err" THEN "nil" ELSE ret

\* err := next(ctx); ...; return err
ErrorReturned(ret) == ret

\* the call of layer k of the chain (layer Len(layers) + 1 is finalHandler)
RECURSIVE RunChain(_, _, _, _, _, _)
RunChain(layers, k, w, b, pass, c) ==
    IF k > Len(layers)
    THEN FinalHandler(w, b, c)
    ELSE LET enter == [ev |-> "enter", pos |-> layers[k].pos]
             exit  == [ev |-> "exit", pos |-> layers[k].pos]
         IN
         CASE layers[k].kind \in {"logging", "metrics"} ->
                LET r == RunChain(layers, k + 1, w, b, pass, c)
                IN  [r EXCEPT !.ret = ErrorReturned(r.ret),
                              !.order = << enter >> \o After(r, exit)]
           [] layers[k].kind = "recovery" ->
                LET r == RunChain(layers, k + 1, w, b, pass, c)
                    o == << enter >> \o Append(r.order, exit)
                IN  CASE r.ret = "panicErr" ->
                            [r EXCEPT !.ret = "err", !.recovered = TRUE, !.order = o]
                      [] r.ret = "panicStr" ->
                            [r EXCEPT !.ret = "nil", !.recovered = TRUE, !.order = o]
                      [] OTHER -> [r EXCEPT !.order = o]
           [] layers[k].kind = "filter" ->
                IF FilterAdmits(pass)
                THEN LET r == RunChain(layers, k + 1, w, b, pass, c)
                     IN  [r EXCEPT !.order = << enter >> \o After(r, exit),
                                   !.pred = IF pass THEN "true" ELSE "false"]
                ELSE [ret |-> "nil", ctx |-> Abort(c), did |-> "filtered",
                      saw |-> FALSE, sawAbort |-> FALSE, recovered |-> FALSE,
                      order |-> << enter, exit >>, pred |-> "false"]

\* invokeHandler: fresh context, middleware chain, deferred recover
InvokeHandler(w, b, pass, mws) ==
    LET r == RunChain(ApplyMiddlewares(mws), 1, w, b, pass, NewContext)
    IN  [r EXCEPT !.ret = IF r.ret \in {"panicErr", "panicStr"}
                          THEN "panic in handler" ELSE r.ret]

\* ------------------------------------------------------------------ Dispatch
\* wrappers[i] as the range loop reads it
WrapperAt(i) ==
    IF wrappers.detached THEN wrappers.copy[i] ELSE handlers[dKey].arr[i]

\* a Dispatch that always runs dispatchToHandlers itself
CallerAlwaysBlocked(asyncMode, n) == "blocked"

\* where Dispatch leaves its caller once the handler list is read: with handlers
\* and d.async it starts go d.dispatchToHandlers(...) and returns nil at once,
\* otherwise the caller stays inside Dispatch
CallerAfterDispatch(asyncMode, n) ==
    IF n > 0 /\ asyncMode THEN "nil" ELSE "blocked"

\* a Dispatch that skips the check of the handler list
NoHandlersIgnored(s) == FALSE

\* !exists || len(wrappers) == 0
NoHandlers(s) == s = NoSlice \/ Len(s.arr) = 0

\* Dispatch, up to the call of dispatchToHandlers (or to the go statement)
Dispatch(ev) ==
    /\ dPc = "idle"
    /\ mu = "free"
    /\ dKey' = ev
    /\ wrappers' = [len |-> Len(handlers[ev].arr), detached |-> FALSE, copy |-> <<>>]
    /\ UNCHANGED <<trace, sink, raced>>
    /\ IF NoHandlers(handlers[ev])
       THEN dPc' = "done" /\ dIdx' = 0
       ELSE dPc' = "running" /\ dIdx' = 1
    /\ caller' = CallerAfterDispatch(async, Len(handlers[ev].arr))
    /\ UNCHANGED <<handlers, middlewares, errorHandlerSet, mu, nreg, regKey, regJ>>
    /\ UNCHANGED <<last, async, exec, svars, rate, loop>>

\* a loop that breaks at the first error
LoopStopsOnError(idx, n, err) == idx < n /\ err = "nil"

\* for _, wrapper := range wrappers: after iteration idx of n the loop goes on
\* while elements are left, whatever invokeHandler returned
LoopContinues(idx, n, err) == idx < n

\* one iteration of the loop of dispatchToHandlers
DispatchStep(b, pass) ==
    /\ dPc = "running"
    /\ LET w == WrapperAt(dIdx)
           r == InvokeHandler(w, b, pass, middlewares)
       IN  /\ dPc' = IF LoopContinues(dIdx, wrappers.len, r.ret)
                     THEN "running" ELSE "done"
           /\ trace' = Append(trace, [name |-> w.name, priority |-> w.priority,
                                      seq |-> w.seq, did |-> r.did, err |-> r.ret,
                                      aborted |-> r.ctx.aborted, saw |-> r.saw,
                                      sawAbort |-> r.sawAbort,
                                      recovered |-> r.recovered])
           /\ sink' = IF r.ret # "nil" /\ errorHandlerSet
                      THEN Append(sink, w.name) ELSE sink
    /\ dIdx' = dIdx + 1
    /\ UNCHANGED <<handlers, middlewares, errorHandlerSet, mu, nreg, regKey, regJ,
                   dKey, wrappers, raced>>
    /\ UNCHANGED <<last, async, caller, exec, svars, rate, loop>>

\* dispatchToHandlers returns nil: to Dispatch, which returns it to its caller,
\* or, in asynchronous mode, to nobody (the task ends). noted is what is kept on
\* record of the dispatch.
DispatchReturnNoting(noted) ==
    /\ dPc = "done"
    /\ dPc' = "idle"
    /\ caller' = "idle"
    /\ dKey' = ""
    /\ wrappers' = [len |-> 0, detached |-> FALSE, copy |-> <<>>]
    /\ dIdx' = 0
    /\ trace' = <<>>
    /\ sink' = <<>>
    /\ raced' = FALSE
    /\ exec' = <<>>
    /\ last' = noted
    /\ UNCHANGED <<handlers, middlewares, errorHandlerSet, mu, nreg, regKey, regJ>>
    /\ UNCHANGED <<async, svars, rate, loop>>

DispatchReturn == DispatchReturnNoting(last)

\* what the handlers of the dispatch in progress did to their contexts
Wrote == [did |-> "dispatch",
          set |-> \E i \in 1..Len(trace) : trace[i].did \in {"set", "setAbort"},
          aborted |-> \E i \in 1..Len(trace) : trace[i].aborted]

\* the end of a dispatch, remembering what its handlers did to their contexts
DispatchReturnNoted == DispatchReturnNoting(Wrote)

\* one dispatch after the other, with handlers that write metadata and abort
NextShare ==
    \/ \E n \in Names, p \in Priorities : RegisterAppend("any", n, p)
    \/ RegisterSort
    \/ Dispatch("nil")
    \/ \E b \in {"ok", "set", "setAbort"} : DispatchStep(b, TRUE)
    \/ DispatchReturnNoted

NextDispatch ==
    \/ \E t \in HandlerTypes, n \in Names, p \in Priorities : RegisterAppend(t, n, p)
    \/ RegisterSort
    \/ \E m \in MiddlewareKinds : Use(m)
    \/ \E ev \in EventTypes : Dispatch(ev)
    \/ \E b \in Behaviours, pass \in BOOLEAN : DispatchStep(b, pass)
    \/ DispatchReturn

\* ------------------------------------------------------------------ RateLimitMiddleware
\* a ticker that keeps the tick in its channel although it handed it to a
\* parked receiver
TickKept(n, parked) == IF n = 0 THEN 1 ELSE n

\* what the ticker's non-blocking send leaves in the channel (capacity 1): a
\* parked receiver takes the tick directly, otherwise the tick fills the buffer,
\* and is lost when the buffer is full
TickBuffered(n, parked) == IF parked THEN n ELSE 1

\* the ticker fires
Tick ==
    /\ rate' = IF rate.waiting # <<>>
               THEN [rate EXCEPT !.st[Head(rate.waiting)] = "admitted",
                                 !.waiting = Tail(rate.waiting),
                                 !.buf = TickBuffered(rate.buf, TRUE),
                                 !.passed = 1]
               ELSE [rate EXCEPT !.buf = TickBuffered(rate.buf, FALSE),
                                 !.passed = 0]
    /\ UNCHANGED <<handlers, middlewares, errorHandlerSet, mu, nreg, regKey, regJ,
                   dPc, dKey, wrappers, dIdx, trace, sink, raced>>
    /\ UNCHANGED <<last, async, caller, exec, svars, loop>>

\* a call enters the middleware and executes <-ticker.C: it takes the buffered
\* tick or parks
RateEnter(c) ==
    /\ rate.st[c] = "out"
    /\ rate' = IF rate.buf > 0
               THEN [rate EXCEPT !.st[c] = "admitted", !.nexts[c] = 0,
                                 !.buf = @ - 1, !.passed = @ + 1]
               ELSE [rate EXCEPT !.st[c] = "waiting", !.nexts[c] = 0,
                                 !.waiting = Append(@, c)]
    /\ UNCHANGED <<handlers, middlewares, errorHandlerSet, mu, nreg, regKey, regJ,
                   dPc, dKey, wrappers, dIdx, trace, sink, raced>>
    /\ UNCHANGED <<last, async, caller, exec, svars, loop>>

\* return next(ctx): the call of next
RateNext(c) ==
    /\ rate.st[c] = "admitted"
    /\ rate' = [rate EXCEPT !.st[c] = "called", !.nexts[c] = @ + 1]
    /\ UNCHANGED <<handlers, middlewares, errorHandlerSet, mu, nreg, regKey, regJ,
                   dPc, dKey, wrappers, dIdx, trace, sink, raced>>
    /\ UNCHANGED <<last, async, caller, exec, svars, loop>>

\* next returns and the middleware returns its result
RateReturn(c) ==
    /\ rate.st[c] = "called"
    /\ rate' = [rate EXCEPT !.st[c] = "out"]
    /\ UNCHANGED <<handlers, middlewares, errorHandlerSet, mu, nreg, regKey, regJ,
                   dPc, dKey, wrappers, dIdx, trace, sink, raced>>
    /\ UNCHANGED <<last, async, caller, exec, svars, loop>>

NextRate ==
    \/ Tick
    \/ \E c \in Callers : RateEnter(c)
    \/ \E c \in Callers : RateNext(c)
    \/ \E c \in Callers : RateReturn(c)

\* the event types dispatched in SpecAsync
AsyncEvents == {"nil", "Notice"}

\* Register[interface{}], Use, SetAsync and Dispatch in either mode
NextAsync ==
    \/ \E b \in BOOLEAN : SetAsync(b)
    \/ \E n \in Names, p \in Priorities : RegisterAppend("any", n, p)
    \/ RegisterSort
    \/ \E m \in MiddlewareKinds : Use(m)
    \/ \E ev \in AsyncEvents : Dispatch(ev)
    \/ \E b \in {"ok", "err"}, pass \in BOOLEAN : DispatchStep(b, pass)
    \/ DispatchReturn

\* the middleware lists of up to n elements
RECURSIVE ChainsUpTo(_)
ChainsUpTo(n) ==
    IF n = 0
    THEN {<<>>}
    ELSE LET shorter == ChainsUpTo(n - 1)
         IN  shorter \cup {Append(s, m) : s \in shorter, m \in ChainKinds}

\* the dispatcher after up to MaxChain calls of Use
ChainedDispatcher ==
    /\ handlers = [k \in EventTypes |-> NoSlice]
    /\ middlewares \in ChainsUpTo(MaxChain)
    /\ errorHandlerSet = TRUE
    /\ mu = "free"
    /\ nreg = 0
    /\ regKey = ""
    /\ regJ = 0
    /\ dPc = "idle"
    /\ dKey = ""
    /\ wrappers = [len |-> 0, detached |-> FALSE, copy |-> <<>>]
    /\ dIdx = 0
    /\ trace = <<>>
    /\ sink = <<>>
    /\ raced = FALSE
    /\ last = NoCall
    /\ async = FALSE
    /\ caller = "idle"
    /\ rate = NewRateLimit
    /\ exec = <<>>

\* one call of invokeHandler on a handler registered by Register[T], observed
\* step by step
Invoke(t, b, pass) ==
    /\ last' = InvokeHandler([typ |-> t, priority |-> 1, name |-> "A", seq |-> 0],
                             b, pass, middlewares)
    /\ UNCHANGED <<handlers, middlewares, errorHandlerSet, mu, nreg, regKey, regJ,
                   dPc, dKey, wrappers, dIdx, trace, sink, raced, async, caller,
                   exec>>
    /\ UNCHANGED <<svars, rate, loop>>

\* calls of invokeHandler under the middlewares installed
NextChain ==
    \E t \in HandlerTypes, b \in Behaviours, pass \in BOOLEAN : Invoke(t, b, pass)

\* The dispatcher after three Register[interface{}] calls (any priorities, the
\* list sorted, its backing array grown 1, 2, 4: one slot free), with one more
\* Register call to come. Registration stamps count back from nreg.
RacedDispatcher ==
    /\ \E p1 \in Priorities, p2 \in Priorities, p3 \in Priorities :
          /\ p1 <= p2 /\ p2 <= p3
          /\ handlers = [k \in EventTypes |->
                IF k = "nil"
                THEN [arr |-> << [typ |-> "any", priority |-> p1, name |-> "A",
                                 seq |-> MaxHandlers - 3],
                                [typ |-> "any", priority |-> p2, name |-> "B",
                                 seq |-> MaxHandlers - 2],
                                [typ |-> "any", priority |-> p3, name |-> "A",
                                 seq |-> MaxHandlers - 1] >>,
                      cap |-> GrowCap(GrowCap(GrowCap(0)))]
                ELSE NoSlice]
    /\ middlewares = <<>>
    /\ errorHandlerSet = TRUE
    /\ mu = "free"
    /\ nreg = MaxHandlers - 1
    /\ regKey = ""
    /\ regJ = 0
    /\ dPc = "idle"
    /\ dKey = ""
    /\ wrappers = [len |-> 0, detached |-> FALSE, copy |-> <<>>]
    /\ dIdx = 0
    /\ trace = <<>>
    /\ sink = <<>>
    /\ raced = FALSE
    /\ last = NoCall
    /\ async = FALSE
    /\ caller = "idle"
    /\ rate = NewRateLimit
    /\ exec = <<>>

\* a Register[interface{}] call running while nil events are dispatched
NextRace ==
    \/ \E n \in Names, p \in Priorities : RegisterAppend("any", n, p)
    \/ RegisterSort
    \/ Dispatch("nil")
    \/ \E b \in {"ok", "err"} : DispatchStep(b, TRUE)
    \/ DispatchReturn

\* The dispatcher after MaxInsertion Register[interface{}] calls made in priority
\* order (the list is sorted, ties in registration order; the backing array has
\* grown 1, 2, 4, 8, 16), with one more Register call to come.
TiedDispatcher ==
    /\ \E lo \in Priorities, hi \in Priorities, k \in 0..MaxInsertion :
          /\ lo <= hi
          /\ handlers = [key \in EventTypes |->
                IF key = "nil"
                THEN [arr |-> [i \in 1..MaxInsertion |->
                                 [typ |-> "any",
                                  priority |-> IF i <= k THEN lo ELSE hi,
                                  name |-> "A",
                                  seq |-> MaxHandlers - 1 - MaxInsertion + i]],
                      cap |-> GrowCap(GrowCap(GrowCap(GrowCap(GrowCap(0)))))]
                ELSE NoSlice]
    /\ middlewares = <<>>
    /\ errorHandlerSet = TRUE
    /\ mu = "free"
    /\ nreg = MaxHandlers - 1
    /\ regKey = ""
    /\ regJ = 0
    /\ dPc = "idle"
    /\ dKey = ""
    /\ wrappers = [len |-> 0, detached |-> FALSE, copy |-> <<>>]
    /\ dIdx = 0
    /\ trace = <<>>
    /\ sink = <<>>
    /\ raced = FALSE
    /\ last = NoCall
    /\ async = FALSE
    /\ caller = "idle"
    /\ rate = NewRateLimit
    /\ exec = <<>>

\* one more Register[interface{}] call, and dispatches of nil events
NextTies ==
    \/ \E n \in Names, p \in Priorities : RegisterAppend("any", n, p)
    \/ RegisterSort
    \/ Dispatch("nil")
    \/ DispatchStep("ok", TRUE)
    \/ DispatchReturn

\* ------------------------------------------------------------------ TimeoutMiddleware
\* the middlewares of SpecTimeout
TimeoutKinds == {"logging", "timeout"}

\* a TimeoutMiddleware is in the chain: the handler body runs in a goroutine of
\* its own (go func() { done <- next(ctx) }())
HasTimeout(mws) == \E i \in 1..Len(mws) : mws[i] = "timeout"

\* the executions whose handler body is between its first and its last statement
Executing == {k \in 1..Len(exec) : exec[k].st = "executing"}

\* invokeHandler, up to the start of the handler body: the chain is built from
\* d.middlewares as it is now; with a TimeoutMiddleware the chain starts a
\* goroutine and waits in select; without one the chain calls Handle on the
\* dispatching goroutine
InvokeBegin ==
    /\ dPc = "running"
    /\ dPc' = "invoking"
    /\ exec' = Append(exec, [st |-> IF HasTimeout(middlewares)
                                    THEN "spawned" ELSE "executing",
                             ret |-> "none",
                             timed |-> HasTimeout(middlewares),
                             sel |-> "none"])
    /\ UNCHANGED <<handlers, middlewares, errorHandlerSet, mu, nreg, regKey, regJ,
                   dKey, wrappers, dIdx, trace, sink, raced>>
    /\ UNCHANGED <<last, async, caller, svars, rate, loop>>

\* the goroutine started by TimeoutMiddleware is scheduled and enters next(ctx)
HandlerBegin(k) ==
    /\ k \in 1..Len(exec)
    /\ exec[k].st = "spawned"
    /\ exec' = [exec EXCEPT ![k].st = "executing"]
    /\ UNCHANGED <<handlers, middlewares, errorHandlerSet, mu, nreg, regKey, regJ,
                   dPc, dKey, wrappers, dIdx, trace, sink, raced>>
    /\ UNCHANGED <<last, async, caller, svars, rate, loop>>

\* the handler body returns b; under a TimeoutMiddleware its goroutine sends the
\* value on done (capacity 1, so the send never blocks). An invokeHandler still
\* waiting for this body is woken by it.
HandlerEnd(k, b) ==
    /\ k \in 1..Len(exec)
    /\ exec[k].st = "executing"
    /\ exec' = [exec EXCEPT ![k].st = "finished",
                            ![k].ret = IF b = "err" THEN "err" ELSE "nil",
                            ![k].sel = IF @ = "none" THEN "done" ELSE @]
    /\ UNCHANGED <<handlers, middlewares, errorHandlerSet, mu, nreg, regKey, regJ,
                   dPc, dKey, wrappers, dIdx, trace, sink, raced>>
    /\ UNCHANGED <<last, async, caller, svars, rate, loop>>

\* the rest of one loop iteration of dispatchToHandlers once invokeHandler
\* returned ret
InvokeEnd(did, ret, aborted) ==
    LET w == WrapperAt(dIdx)
    IN  /\ dPc' = IF LoopContinues(dIdx, wrappers.len, ret) THEN "running" ELSE "done"
        /\ trace' = Append(trace, [name |-> w.name, priority |-> w.priority,
                                   seq |-> w.seq, did |-> did, err |-> ret,
                                   aborted |-> aborted, saw |-> FALSE,
                                   sawAbort |-> FALSE,
                                   recovered |-> FALSE])
        /\ sink' = IF ret # "nil" /\ errorHandlerSet THEN Append(sink, w.name) ELSE sink
        /\ dIdx' = dIdx + 1
        /\ UNCHANGED <<handlers, middlewares, errorHandlerSet, mu, nreg, regKey, regJ,
                       dKey, wrappers, raced, exec>>
        /\ UNCHANGED <<last, async, caller, svars, rate, loop>>

\* the timer of time.After(timeout) fires while the select is still waiting
TimerExpire ==
    /\ dPc = "invoking"
    /\ exec[Len(exec)].timed
    /\ exec[Len(exec)].sel = "none"
    /\ exec' = [exec EXCEPT ![Len(exec)].sel = "timer"]
    /\ UNCHANGED <<handlers, middlewares, errorHandlerSet, mu, nreg, regKey, regJ,
                   dPc, dKey, wrappers, dIdx, trace, sink, raced>>
    /\ UNCHANGED <<last, async, caller, svars, rate, loop>>

\* a select that takes either branch once it was woken
SelectTakesAny(sel, branch) == sel # "none"

\* the select (timeout > 0) goes the way of the communication that became ready
\* first: the timer is created on entering the select, and a goroutine waiting in
\* a select is handed the first value sent to it
SelectTakes(sel, branch) == sel = branch

\* invokeHandler returns what the handler body returned (case err := <-done, or
\* the plain return of a chain without TimeoutMiddleware)
InvokeDone ==
    /\ dPc = "invoking"
    /\ SelectTakes(exec[Len(exec)].sel, "done")
    /\ InvokeEnd(IF exec[Len(exec)].ret = "err" THEN "err" ELSE "ok",
                 exec[Len(exec)].ret, FALSE)

\* case <-time.After(timeout): Abort and return nil, whatever the goroutine is
\* doing
InvokeTimeout ==
    /\ dPc = "invoking"
    /\ exec[Len(exec)].timed
    /\ SelectTakes(exec[Len(exec)].sel, "timer")
    /\ InvokeEnd("timeout", "nil", TRUE)

\* Register[interface{}], Use of Logging and Timeout, Dispatch of nil events with
\* handler bodies that take time
NextTimeout ==
    \/ \E n \in Names, p \in Priorities : RegisterAppend("any", n, p)
    \/ RegisterSort
    \/ \E m \in TimeoutKinds : Use(m)
    \/ Dispatch("nil")
    \/ InvokeBegin
    \/ \E k \in 1..MaxHandlers : HandlerBegin(k)
    \/ \E k \in 1..MaxHandlers, b \in {"ok", "err"} : HandlerEnd(k, b)
    \/ TimerExpire
    \/ InvokeDone
    \/ InvokeTimeout
    \/ DispatchReturn

\* ---- the read loop's dispatches, one event after the other
\* the handler bodies of the dispatch in progress that have not returned
Unfinished == {k \in 1..Len(exec) : exec[k].st # "finished"}

\* what a dispatch leaves behind when it returns to the read loop
Left == [did |-> "dispatch", running |-> Cardinality(Unfinished)]

\* Dispatch returns to the read loop (bot_server.go:134), which goes on to read
\* the next message; the goroutines of abandoned handler bodies live on
DispatchReturnLeaving == DispatchReturnNoting(Left)

\* a handler body left behind by an earlier dispatch returns
BackgroundEnd ==
    /\ last.did = "dispatch"
    /\ last.running > 0
    /\ last' = [last EXCEPT !.running = @ - 1]
    /\ UNCHANGED <<handlers, middlewares, errorHandlerSet, mu, nreg, regKey, regJ,
                   dPc, dKey, wrappers, dIdx, trace, sink, raced>>
    /\ UNCHANGED <<async, caller, exec, svars, rate, loop>>

\* the events of one connection dispatched synchronously, one after the other
NextOrder ==
    \/ \E n \in Names, p \in Priorities : RegisterAppend("any", n, p)
    \/ RegisterSort
    \/ \E m \in TimeoutKinds : Use(m)
    \/ Dispatch("nil")
    \/ InvokeBegin
    \/ \E k \in 1..MaxHandlers : HandlerBegin(k)
    \/ \E k \in 1..MaxHandlers, b \in {"ok", "err"} : HandlerEnd(k, b)
    \/ TimerExpire
    \/ InvokeDone
    \/ InvokeTimeout
    \/ DispatchReturnLeaving
    \/ BackgroundEnd

\* ------------------------------------------------------------------ WSServer
NoConn == 0
Conns == 1..MaxConns
\* the connections of SpecServer: one and the one that replaces it
ServerConns == {1, 2}
Calls == 1..MaxCalls

\* the status field of a response
Statuses == {"ok", "async", "failed"}
\* the statuses the peer answers with in SpecConn and SpecServer
ServerStatuses == {"ok", "failed"}
\* the connection of SpecCall
CallConns == {1}

EmptyChan == [buf |-> <<>>, closed |-> FALSE]

NoMessage == [echo |-> FALSE, pt |-> "", as |-> "none"]
\* no call
NoCallId == 0

\* NewWSServer, no connection yet, no CallAPI started
InitServer ==
    /\ activeClient = NoConn
    /\ connected = FALSE
    /\ clientMu = NoConn
    /\ pendingCalls = {}
    /\ hPc = [c \in Conns |-> "new"]
    /\ closed = [c \in Conns |-> FALSE]
    /\ cPc = [k \in Calls |-> "idle"]
    /\ conn = [k \in Calls |-> NoConn]
    /\ respChan = [k \in Calls |-> EmptyChan]
    /\ result = [k \in Calls |-> "none"]
    /\ respErr = [k \in Calls |-> "none"]
    /\ inTime = [k \in Calls |-> FALSE]
    /\ dropped = FALSE
    /\ fallback = FALSE
    /\ rlog = NoMessage
    /\ loop = [by |-> [k \in Calls |-> "none"],
               running |-> [c \in Conns |-> NoCallId],
               wire |-> [c \in Conns |-> <<>>],
               sent |-> [k \in Calls |-> "no"]]

\* a CallAPI without the IsConnected check
ConnectedUnchecked == TRUE

\* IsConnected
IsConnected == connected

callVars == <<cPc, conn, result, respErr, rlog>>
chanVars == <<pendingCalls, respChan, inTime, dropped, fallback>>

\* ---- HandlerWebsocket: accept
\* upgrader.Upgrade succeeds
Upgrade(c) ==
    /\ hPc[c] = "new"
    /\ \A b \in Conns : b < c => hPc[b] # "new"
    /\ hPc' = [hPc EXCEPT ![c] = "accept"]
    /\ UNCHANGED <<activeClient, connected, clientMu, closed>>
    /\ UNCHANGED <<callVars, chanVars>>
    /\ UNCHANGED <<dvars, loop>>

\* an accept that leaves the old connection open
CloseNothing(cl, old) == cl

\* if s.activeClient != nil { s.activeClient.Close() }
CloseOld(cl, old) == IF old # NoConn THEN [cl EXCEPT ![old] = TRUE] ELSE cl

\* clientMu.Lock(), then the old connection is closed
AcceptCloseOld(c) ==
    /\ hPc[c] = "accept"
    /\ clientMu = NoConn
    /\ clientMu' = c
    /\ closed' = CloseOld(closed, activeClient)
    /\ hPc' = [hPc EXCEPT ![c] = "install"]
    /\ UNCHANGED <<activeClient, connected>>
    /\ UNCHANGED <<callVars, chanVars>>
    /\ UNCHANGED <<dvars, loop>>

\* s.activeClient = conn
AcceptInstall(c) ==
    /\ hPc[c] = "install"
    /\ activeClient' = c
    /\ hPc' = [hPc EXCEPT ![c] = "mark"]
    /\ UNCHANGED <<connected, clientMu, closed>>
    /\ UNCHANGED <<callVars, chanVars>>
    /\ UNCHANGED <<dvars, loop>>

\* s.connected.Store(true); clientMu.Unlock()
AcceptMark(c) ==
    /\ hPc[c] = "mark"
    /\ connected' = TRUE
    /\ clientMu' = NoConn
    /\ hPc' = [hPc EXCEPT ![c] = "read"]
    /\ UNCHANGED <<activeClient, closed>>
    /\ UNCHANGED <<callVars, chanVars>>
    /\ UNCHANGED <<dvars, loop>>

\* ---- HandlerWebsocket: the read loop
\* conn.ReadMessage fails (the peer went away, or the connection was closed): break
ReadError(c) ==
    /\ hPc[c] = "read"
    /\ hPc' = [hPc EXCEPT ![c] = "cleanup"]
    /\ UNCHANGED <<activeClient, connected, clientMu, closed>>
    /\ UNCHANGED <<callVars, chanVars>>
    /\ UNCHANGED <<dvars, loop>>

\* the request of call e went out: only then can the peer know its token (a UUID)
Sent(e) == cPc[e] \in {"wait", "expired"} \/ result[e] \in Statuses \cup {"timeout", "nil response"}

\* a Load in place of LoadAndDelete
LoadOnly(p, e) == [ok |-> e \in p, left |-> p]

\* pendingCalls.LoadAndDelete(echo): the entry is taken out, and whether it was there
LoadAndDelete(p, e) == [ok |-> e \in p, left |-> p \ {e}]

\* an unbuffered channel with no receiver at hand
NoRoom(buf) == FALSE

\* make(chan *types.APIResponse, 1): a send goes through at once while the one
\* slot is free
HasRoom(buf) == Len(buf) < 1

\* the response branch of the read loop: LoadAndDelete, send on the channel (or
\* give up after a second when the channel is full), close the channel
Resolve(e, st) ==
    LET ld == LoadAndDelete(pendingCalls, e)
    IN  /\ pendingCalls' = ld.left
        /\ IF ld.ok
           THEN /\ respChan' = [respChan EXCEPT ![e] =
                     [buf |-> IF HasRoom(@.buf) THEN Append(@.buf, st) ELSE @.buf,
                      closed |-> TRUE]]
                /\ fallback' = (fallback \/ ~HasRoom(respChan[e].buf))
                /\ inTime' = [inTime EXCEPT ![e] = (cPc[e] = "wait")]
                /\ UNCHANGED dropped
           ELSE /\ dropped' = (dropped \/ Sent(e))
                /\ UNCHANGED <<respChan, fallback, inTime>>

\* a message with a non-empty echo that decodes as a response: resolve, continue
ReadResponse(c, e, st) ==
    /\ hPc[c] = "read"
    /\ Sent(e) \/ e \notin pendingCalls
    /\ Resolve(e, st)
    /\ UNCHANGED <<activeClient, connected, clientMu, hPc, closed>>
    /\ UNCHANGED callVars
    /\ UNCHANGED <<dvars, loop>>

\* post_type of an inbound event and what ParseEvent makes of it
PostTypes == {"message", "notice", "request", "meta_event", "unknown", ""}
\* a ParseEvent whose switch defaults to an event
ParseEventLenient(pt) == "event"

ParseEvent(pt) ==
    IF pt \in {"message", "notice", "request", "meta_event"} THEN "event" ELSE "error"

\* a message without echo: ParseEvent, then Dispatch or log and continue
ReadEvent(c, pt) ==
    /\ hPc[c] = "read"
    /\ ParseEvent(pt) \in {"event", "error"}
    /\ UNCHANGED <<activeClient, connected, clientMu, hPc, closed>>
    /\ UNCHANGED <<callVars, chanVars>>
    /\ UNCHANGED <<dvars, loop>>

\* a message's echo field when it is absent or empty
NoEcho == 0

\* the post_type values SpecRead feeds the read loop: valid, unknown, missing
ReadPostTypes == {"message", "unknown", ""}

\* the read loop's test for a response: json.Unmarshal into the response struct
\* (Echo plus the APIResponse fields) gave no error and response.Echo != ""
IsResponse(decodes, echo) == decodes /\ echo # NoEcho

\* one iteration of the read loop after a successful ReadMessage. echo is NoEcho
\* or the token of a call; decodes tells whether the message's fields fit the
\* response struct; st and pt are its status and post_type.
ReadMessage(c, echo, decodes, st, pt) ==
    /\ hPc[c] = "read"
    /\ echo # NoEcho => (Sent(echo) \/ echo \notin pendingCalls)
    /\ IF IsResponse(decodes, echo)
       THEN /\ Resolve(echo, st)
            /\ rlog' = [echo |-> TRUE, pt |-> "", as |-> "response"]
       ELSE /\ UNCHANGED chanVars
            /\ rlog' = [echo |-> echo # NoEcho, pt |-> pt,
                        as |-> IF ParseEvent(pt) = "event"
                               THEN "dispatch" ELSE "error"]
    /\ UNCHANGED <<activeClient, connected, clientMu, hPc, closed>>
    /\ UNCHANGED <<cPc, conn, result, respErr>>
    /\ UNCHANGED <<dvars, loop>>

\* ---- HandlerWebsocket: the deferred cleanup
\* a cleanup that does not look at which connection is active
CleanupUnconditional(c) == TRUE

\* a cleanup that never finds its connection active
CleanupNever(c) == FALSE

\* the deferred cleanup's test s.activeClient == conn
StillActive(c) == activeClient = c

\* clientMu.Lock(); if s.activeClient == conn { s.activeClient = nil ... } else
\* clientMu.Unlock()
Cleanup(c) ==
    /\ hPc[c] = "cleanup"
    /\ clientMu = NoConn
    /\ IF StillActive(c)
       THEN /\ activeClient' = NoConn
            /\ clientMu' = c
            /\ hPc' = [hPc EXCEPT ![c] = "unmark"]
       ELSE /\ hPc' = [hPc EXCEPT ![c] = "close"]
            /\ UNCHANGED <<activeClient, clientMu>>
    /\ UNCHANGED <<connected, closed>>
    /\ UNCHANGED <<callVars, chanVars>>
    /\ UNCHANGED <<dvars, loop>>

\* a cleanup that clears the reference and leaves the flag as it is
FlagLeftSet(flag) == flag

\* s.connected.Store(false)
FlagCleared(flag) == FALSE

\* s.connected.Store(false); clientMu.Unlock()
CleanupMark(c) ==
    /\ hPc[c] = "unmark"
    /\ connected' = FlagCleared(connected)
    /\ clientMu' = NoConn
    /\ hPc' = [hPc EXCEPT ![c] = "close"]
    /\ UNCHANGED <<activeClient, closed>>
    /\ UNCHANGED <<callVars, chanVars>>
    /\ UNCHANGED <<dvars, loop>>

\* conn.Close()
CleanupClose(c) ==
    /\ hPc[c] = "close"
    /\ closed' = [closed EXCEPT ![c] = TRUE]
    /\ hPc' = [hPc EXCEPT ![c] = "done"]
    /\ UNCHANGED <<activeClient, connected, clientMu>>
    /\ UNCHANGED <<callVars, chanVars>>
    /\ UNCHANGED <<dvars, loop>>

\* ---- CallAPI
connVars == <<activeClient, connected, clientMu, hPc, closed>>

\* pendingCalls.Store(echo, respChan)
Store(p, e) == p \cup {e}

\* a Delete that is forgotten
DeleteNothing(p, e) == p

\* pendingCalls.Delete(echo)
Delete(p, e) == p \ {e}

\* the IsConnected check; then generateEcho, make(chan, 1), pendingCalls.Store and
\* json.Marshal of the request (which fails for parameters JSON cannot encode)
CallBegin(k, marshals) ==
    /\ cPc[k] = "idle"
    /\ \A j \in Calls : j < k => cPc[j] # "idle"
    /\ IF ~IsConnected
       THEN /\ result' = [result EXCEPT ![k] = "not connected"]
            /\ cPc' = [cPc EXCEPT ![k] = "returned"]
            /\ UNCHANGED pendingCalls
       ELSE IF marshals
            THEN /\ pendingCalls' = Store(pendingCalls, k)
                 /\ cPc' = [cPc EXCEPT ![k] = "load"]
                 /\ UNCHANGED result
            ELSE /\ pendingCalls' = Delete(Store(pendingCalls, k), k)
                 /\ result' = [result EXCEPT ![k] = "marshal failed"]
                 /\ cPc' = [cPc EXCEPT ![k] = "returned"]
    /\ UNCHANGED <<conn, respChan, inTime, dropped, fallback>>
    /\ UNCHANGED respErr
    /\ UNCHANGED rlog
    /\ UNCHANGED connVars
    /\ UNCHANGED <<dvars, loop>>

\* a CallAPI that does not check the reference it loaded
ConnNeverNil(c) == FALSE

\* if conn == nil
ConnIsNil(c) == c = NoConn

\* clientMu.RLock(); conn := s.activeClient; clientMu.RUnlock(); the nil check
CallLoadConn(k) ==
    /\ cPc[k] = "load"
    /\ clientMu = NoConn
    /\ conn' = [conn EXCEPT ![k] = activeClient]
    /\ IF ConnIsNil(activeClient)
       THEN /\ pendingCalls' = Delete(pendingCalls, k)
            /\ result' = [result EXCEPT ![k] = "no active connection"]
            /\ cPc' = [cPc EXCEPT ![k] = "returned"]
            /\ respChan' = [respChan EXCEPT ![k] = EmptyChan]
       ELSE /\ cPc' = [cPc EXCEPT ![k] = "write"]
            /\ UNCHANGED <<pendingCalls, result, respChan>>
    /\ UNCHANGED <<inTime, dropped, fallback>>
    /\ UNCHANGED respErr
    /\ UNCHANGED rlog
    /\ UNCHANGED connVars
    /\ UNCHANGED <<dvars, loop>>

\* conn.WriteMessage: fails on a closed connection, may fail on any
CallWrite(k, delivered) ==
    /\ cPc[k] = "write"
    /\ IF delivered /\ ~closed[conn[k]]
       THEN /\ cPc' = [cPc EXCEPT ![k] = "wait"]
            /\ UNCHANGED <<pendingCalls, result>>
       ELSE /\ pendingCalls' = Delete(pendingCalls, k)
            /\ result' = [result EXCEPT ![k] = "send failed"]
            /\ cPc' = [cPc EXCEPT ![k] = "returned"]
    /\ conn' = [conn EXCEPT ![k] = IF cPc'[k] = "returned" THEN NoConn ELSE @]
    /\ respChan' = [respChan EXCEPT ![k] = IF cPc'[k] = "returned" THEN EmptyChan ELSE @]
    /\ UNCHANGED <<inTime, dropped, fallback>>
    /\ UNCHANGED respErr
    /\ UNCHANGED rlog
    /\ UNCHANGED connVars
    /\ UNCHANGED <<dvars, loop>>

\* a check that knows "ok" only
StatusErrorOkOnly(st) == IF st # "ok" THEN "API call failed" ELSE "nil"

\* if resp.Status != "ok" && resp.Status != "async": the error returned with resp
StatusError(st) == IF st # "ok" /\ st # "async" THEN "API call failed" ELSE "nil"

\* select, case resp := <-respChan: a buffered value, or nil from a closed channel
CallRecv(k) ==
    /\ cPc[k] \in {"wait", "expired"}
    /\ Len(respChan[k].buf) > 0 \/ respChan[k].closed
    /\ result' = [result EXCEPT ![k] = IF Len(respChan[k].buf) > 0
                                        THEN Head(respChan[k].buf)
                                        ELSE "nil response"]
    /\ respErr' = [respErr EXCEPT ![k] = IF Len(respChan[k].buf) > 0
                                          THEN StatusError(Head(respChan[k].buf))
                                          ELSE "none"]
    /\ respChan' = [respChan EXCEPT ![k] = EmptyChan]
    /\ cPc' = [cPc EXCEPT ![k] = "returned"]
    /\ conn' = [conn EXCEPT ![k] = NoConn]
    /\ UNCHANGED <<pendingCalls, inTime, dropped, fallback>>
    /\ UNCHANGED rlog
    /\ UNCHANGED connVars
    /\ UNCHANGED <<dvars, loop>>

\* a wait with no timer
TimerNever(pc) == FALSE

\* time.After(s.callTimeout) is armed when CallAPI enters its select
TimerArmed(pc) == pc = "wait"

\* the timer of time.After(s.callTimeout) fires
TimerFire(k) ==
    /\ TimerArmed(cPc[k])
    /\ cPc' = [cPc EXCEPT ![k] = "expired"]
    /\ UNCHANGED <<conn, result>>
    /\ UNCHANGED chanVars
    /\ UNCHANGED respErr
    /\ UNCHANGED rlog
    /\ UNCHANGED connVars
    /\ UNCHANGED <<dvars, loop>>

\* select, case <-time.After(s.callTimeout), once the timer has fired: Delete the
\* entry, return the error. (When a response is buffered as well, select takes
\* either case.)
CallTimeout(k) ==
    /\ cPc[k] = "expired"
    /\ pendingCalls' = Delete(pendingCalls, k)
    /\ result' = [result EXCEPT ![k] = "timeout"]
    /\ cPc' = [cPc EXCEPT ![k] = "returned"]
    /\ conn' = [conn EXCEPT ![k] = NoConn]
    /\ respChan' = [respChan EXCEPT ![k] = EmptyChan]
    /\ UNCHANGED <<inTime, dropped, fallback>>
    /\ UNCHANGED respErr
    /\ UNCHANGED rlog
    /\ UNCHANGED connVars
    /\ UNCHANGED <<dvars, loop>>

\* ---- handlers that call the API from inside a dispatch
\* whether the read loop's call of Dispatch (bot_server.go:134) keeps the read
\* loop until the handlers have returned: it does unless d.async hands them to
\* a goroutine of their own
DispatchBlocks(mode) == mode = "sync"

\* the read loop reads an event and calls Dispatch; the handler invoked is going
\* to call CallAPI (call k, the next one to start)
LoopDispatch(c, mode) ==
    /\ hPc[c] = "read"
    /\ \E k \in Calls :
        /\ cPc[k] = "idle"
        /\ loop.by[k] = "none"
        /\ \A j \in Calls : j < k => (cPc[j] # "idle" \/ loop.by[j] # "none")
        /\ loop' = [loop EXCEPT !.by[k] = mode,
                                !.running[c] = IF DispatchBlocks(mode) THEN k ELSE @]
        /\ hPc' = [hPc EXCEPT ![c] = IF DispatchBlocks(mode) THEN "dispatching" ELSE @]
    /\ UNCHANGED <<activeClient, connected, clientMu, closed>>
    /\ UNCHANGED <<callVars, chanVars>>
    /\ UNCHANGED dvars

\* the handler's CallAPI has returned, the handler returns, Dispatch returns and
\* the read loop goes back to ReadMessage
LoopReturn(c) ==
    /\ hPc[c] = "dispatching"
    /\ cPc[loop.running[c]] = "returned"
    /\ hPc' = [hPc EXCEPT ![c] = "read"]
    /\ loop' = [loop EXCEPT !.running[c] = NoCallId]
    /\ UNCHANGED <<activeClient, connected, clientMu, closed>>
    /\ UNCHANGED <<callVars, chanVars>>
    /\ UNCHANGED dvars

\* the peer answers request e, which it has received, on the connection
PeerSend(c, e, st) ==
    /\ hPc[c] \in {"read", "dispatching"}
    /\ ~closed[c]
    /\ Sent(e)
    /\ loop.sent[e] = "no"
    /\ loop' = [loop EXCEPT !.wire[c] = Append(@, [echo |-> e, status |-> st]),
                            !.sent[e] = IF cPc[e] = "wait" THEN "inTime" ELSE "late"]
    /\ UNCHANGED connVars
    /\ UNCHANGED <<callVars, chanVars>>
    /\ UNCHANGED dvars

\* conn.ReadMessage returns the next response on the wire: the response branch
LoopRead(c) ==
    /\ hPc[c] = "read"
    /\ loop.wire[c] # <<>>
    /\ Resolve(Head(loop.wire[c]).echo, Head(loop.wire[c]).status)
    /\ loop' = [loop EXCEPT !.wire[c] = Tail(@)]
    /\ UNCHANGED connVars
    /\ UNCHANGED callVars
    /\ UNCHANGED dvars

\* one connection whose read loop dispatches events to handlers that call the API
NextLoop ==
    \/ \E c \in CallConns : Upgrade(c)
    \/ \E c \in CallConns : AcceptCloseOld(c)
    \/ \E c \in CallConns : AcceptInstall(c)
    \/ \E c \in CallConns : AcceptMark(c)
    \/ \E c \in CallConns : ReadError(c)
    \/ \E c \in CallConns, mode \in {"sync", "async"} : LoopDispatch(c, mode)
    \/ \E c \in CallConns : LoopReturn(c)
    \/ \E c \in CallConns, e \in Calls, st \in ServerStatuses : PeerSend(c, e, st)
    \/ \E c \in CallConns : LoopRead(c)
    \/ \E c \in CallConns : Cleanup(c)
    \/ \E c \in CallConns : CleanupMark(c)
    \/ \E c \in CallConns : CleanupClose(c)
    \/ \E k \in Calls, marshals \in BOOLEAN : CallBegin(k, marshals)
    \/ \E k \in Calls : CallLoadConn(k)
    \/ \E k \in Calls, delivered \in BOOLEAN : CallWrite(k, delivered)
    \/ \E k \in Calls : CallRecv(k)
    \/ \E k \in Calls : TimerFire(k)
    \/ \E k \in Calls : CallTimeout(k)

\* connections coming and going, no CallAPI
NextConn ==
    \/ \E c \in Conns : Upgrade(c)
    \/ \E c \in Conns : AcceptCloseOld(c)
    \/ \E c \in Conns : AcceptInstall(c)
    \/ \E c \in Conns : AcceptMark(c)
    \/ \E c \in Conns : ReadError(c)
    \/ \E c \in Conns, e \in Calls, st \in ServerStatuses : ReadResponse(c, e, st)
    \/ \E c \in Conns, pt \in PostTypes : ReadEvent(c, pt)
    \/ \E c \in Conns : Cleanup(c)
    \/ \E c \in Conns : CleanupMark(c)
    \/ \E c \in Conns : CleanupClose(c)

\* CallAPI invocations over a connection and the connection replacing it
NextServer ==
    \/ \E c \in ServerConns : Upgrade(c)
    \/ \E c \in ServerConns : AcceptCloseOld(c)
    \/ \E c \in ServerConns : AcceptInstall(c)
    \/ \E c \in ServerConns : AcceptMark(c)
    \/ \E c \in ServerConns : ReadError(c)
    \/ \E c \in ServerConns, e \in Calls, st \in ServerStatuses : ReadResponse(c, e, st)
    \/ \E c \in ServerConns, pt \in PostTypes : ReadEvent(c, pt)
    \/ \E c \in ServerConns : Cleanup(c)
    \/ \E c \in ServerConns : CleanupMark(c)
    \/ \E c \in ServerConns : CleanupClose(c)
    \/ \E k \in Calls, marshals \in BOOLEAN : CallBegin(k, marshals)
    \/ \E k \in Calls : CallLoadConn(k)
    \/ \E k \in Calls, delivered \in BOOLEAN : CallWrite(k, delivered)
    \/ \E k \in Calls : CallRecv(k)
    \/ \E k \in Calls : TimerFire(k)
    \/ \E k \in Calls : CallTimeout(k)

\* CallAPI invocations over one connection, every status
NextCall ==
    \/ \E c \in CallConns : Upgrade(c)
    \/ \E c \in CallConns : AcceptCloseOld(c)
    \/ \E c \in CallConns : AcceptInstall(c)
    \/ \E c \in CallConns : AcceptMark(c)
    \/ \E c \in CallConns : ReadError(c)
    \/ \E c \in CallConns, e \in Calls, st \in Statuses : ReadResponse(c, e, st)
    \/ \E c \in CallConns, pt \in PostTypes : ReadEvent(c, pt)
    \/ \E c \in CallConns : Cleanup(c)
    \/ \E c \in CallConns : CleanupMark(c)
    \/ \E c \in CallConns : CleanupClose(c)
    \/ \E k \in Calls, marshals \in BOOLEAN : CallBegin(k, marshals)
    \/ \E k \in Calls : CallLoadConn(k)
    \/ \E k \in Calls, delivered \in BOOLEAN : CallWrite(k, delivered)
    \/ \E k \in Calls : CallRecv(k)
    \/ \E k \in Calls : TimerFire(k)
    \/ \E k \in Calls : CallTimeout(k)

\* the read loop taking each message whole, with CallAPI on one connection
NextRead ==
    \/ \E c \in CallConns : Upgrade(c)
    \/ \E c \in CallConns : AcceptCloseOld(c)
    \/ \E c \in CallConns : AcceptInstall(c)
    \/ \E c \in CallConns : AcceptMark(c)
    \/ \E c \in CallConns : ReadError(c)
    \/ \E c \in CallConns, echo \in Calls \cup {NoEcho}, decodes \in BOOLEAN,
          st \in ServerStatuses, pt \in ReadPostTypes :
            ReadMessage(c, echo, decodes, st, pt)
    \/ \E c \in CallConns : Cleanup(c)
    \/ \E c \in CallConns : CleanupMark(c)
    \/ \E c \in CallConns : CleanupClose(c)
    \/ \E k \in Calls, marshals \in BOOLEAN : CallBegin(k, marshals)
    \/ \E k \in Calls : CallLoadConn(k)
    \/ \E k \in Calls, delivered \in BOOLEAN : CallWrite(k, delivered)
    \/ \E k \in Calls : CallRecv(k)
    \/ \E k \in Calls : TimerFire(k)
    \/ \E k \in Calls : CallTimeout(k)

\* ------------------------------------------------------------------ specifications
vars == <<dvars, svars, loop>>

Init == InitDispatcher /\ InitServer

\* the dispatcher on its own
SpecDispatch == Init /\ [][NextDispatch]_vars

\* the dispatcher in synchronous and asynchronous mode
SpecAsync == Init /\ [][NextAsync]_vars

\* the errors returned by the handlers invoked so far in this dispatch
ErrorsInTrace == {i \in 1..Len(trace) : trace[i].err # "nil"}

\* C21: in asynchronous mode Dispatch returns nil to its caller before any
\* handler has run; the whole chain then runs in the one task it started, and
\* every handler error is handed to the error sink
C21_AsyncReturnsAtOnce ==
    /\ [][(dPc = "idle" /\ dPc' = "running" /\ async)
            => (caller' = "nil" /\ trace' = <<>>)]_vars
    /\ [](caller = "nil" =>
            /\ dPc \in {"running", "done"}
            /\ (dPc = "done" => Len(trace) = wrappers.len)
            /\ Len(sink) = Cardinality(ErrorsInTrace))

C21_Witness ==
    /\ caller = "nil"
    /\ dPc = "done"
    /\ Len(trace) = 2
    /\ Len(sink) = 1

\* C23: a Dispatch that finds no handlers for the event's type does nothing: it
\* goes straight to its return of nil, in either mode, with no handler invoked
\* and the error sink not called
C23_NoHandlersIsNoOp ==
    (dPc # "idle" /\ wrappers.len = 0) =>
        /\ dPc = "done"
        /\ caller = "blocked"
        /\ trace = <<>>
        /\ sink = <<>>
        /\ exec = <<>>

C23_Witness ==
    /\ dPc = "done"
    /\ dKey = "Notice"
    /\ wrappers.len = 0
    /\ Len(handlers["nil"].arr) > 0
    /\ async

InitChain == ChainedDispatcher /\ InitServer

\* the dispatcher under longer middleware chains
SpecChain == InitChain /\ [][NextChain]_vars

\* m1-before .. mN-before, handler, mN-after .. m1-after
Onion(n) ==
    [i \in 1..(2 * n + 1) |->
        IF i <= n THEN [ev |-> "enter", pos |-> i]
        ELSE IF i = n + 1 THEN [ev |-> "handler", pos |-> 0]
        ELSE [ev |-> "exit", pos |-> 2 * n + 2 - i]]

\* C24: every invocation whose handler body ran and returned went through the
\* middlewares in Use order on the way in and in the opposite order on the way
\* out (the first-registered middleware is outermost)
C24_FirstMiddlewareOutermost ==
    last.did \in {"ok", "err", "set", "setAbort"}
        => last.order = Onion(Len(middlewares))

C24_Witness ==
    /\ Len(middlewares) = 2
    /\ middlewares[1] # middlewares[2]
    /\ last.did = "err"
    /\ last.order = Onion(2)

\* the position of the outermost Filter of a chain that has one
FirstFilter(mws) ==
    CHOOSE i \in 1..Len(mws) :
        mws[i] = "filter" /\ \A j \in 1..(i - 1) : mws[j] # "filter"

\* how often a step occurs in the steps of a call
Occurrences(order, step) == Cardinality({i \in 1..Len(order) : order[i] = step})

NotFilter(m) == m # "filter"

\* the same handler invoked under the same chain with its Filters taken out
Unfiltered(r) ==
    InvokeHandler([typ |-> IF r.did = "reflectPanic" THEN "Message" ELSE "any",
                   priority |-> 1, name |-> "A", seq |-> 0],
                  IF r.did = "reflectPanic" THEN "ok" ELSE r.did,
                  TRUE, SelectSeq(middlewares, NotFilter))

\* C26: a call whose Filter predicate said false went no deeper than the Filter,
\* never ran the handler, and returned nil with abort set; a call whose predicate
\* said true entered what the Filter wraps exactly once and came back with the
\* result and the context the chain without the Filter gives
C26_FilterSkipsOrPasses ==
    /\ (last.did # "none" /\ last.pred = "false") =>
            /\ last.did = "filtered"
            /\ last.ret = "nil"
            /\ last.ctx = Abort(NewContext)
            /\ \A i \in 1..Len(last.order) :
                    /\ last.order[i].ev # "handler"
                    /\ last.order[i].pos <= FirstFilter(middlewares)
    /\ (last.did # "none" /\ last.pred = "true") =>
            /\ last.did # "filtered"
            /\ \A k \in (FirstFilter(middlewares) + 1)..Len(middlewares) :
                    Occurrences(last.order, [ev |-> "enter", pos |-> k]) = 1
            /\ last.did # "reflectPanic" =>
                    Occurrences(last.order, [ev |-> "handler", pos |-> 0]) = 1
            /\ last.ret = Unfiltered(last).ret
            /\ last.ctx = Unfiltered(last).ctx

\* a filtered call under a chain that has a middleware inside the Filter
C26_Witness ==
    /\ middlewares = <<"filter", "recovery">>
    /\ last.did = "filtered"
    /\ last.pred = "false"
    /\ last.order = << [ev |-> "enter", pos |-> 1], [ev |-> "exit", pos |-> 1] >>

\* the chain has only middlewares of the given kinds
MadeOf(mws, kinds) == \A i \in 1..Len(mws) : mws[i] \in kinds

\* the same handler invoked with no middleware at all
Bare(r) ==
    InvokeHandler([typ |-> IF r.did = "reflectPanic" THEN "Message" ELSE "any",
                   priority |-> 1, name |-> "A", seq |-> 0],
                  IF r.did = "reflectPanic" THEN "ok" ELSE r.did, TRUE, <<>>)

\* C35: under a chain of Logging and Metrics middlewares a call returns what the
\* handler alone returns, and so it does under a chain that has Recovery
\* middlewares as well when the handler does not panic; the handler body runs
\* exactly once
C35_ErrorTransparent ==
    /\ (last.did # "none" /\ MadeOf(middlewares, {"logging", "metrics"})) =>
            /\ last.ret = Bare(last).ret
            /\ last.ctx = Bare(last).ctx
            /\ last.did # "reflectPanic" =>
                    Occurrences(last.order, [ev |-> "handler", pos |-> 0]) = 1
    /\ (/\ last.did \in {"ok", "err", "set", "setAbort"}
        /\ MadeOf(middlewares, {"logging", "metrics", "recovery"})) =>
            /\ last.ret = Bare(last).ret
            /\ last.ret = (IF last.did = "err" THEN "err" ELSE "nil")
            /\ ~last.recovered
            /\ Occurrences(last.order, [ev |-> "handler", pos |-> 0]) = 1

\* a handler's error came back through a Recovery inside a Metrics middleware
C35_Witness ==
    /\ middlewares = <<"metrics", "recovery">>
    /\ last.did = "err"
    /\ last.ret = "err"

\* C28: the context of every handler that was invoked carries the server:
\* GetServer() is not nil and Reply goes out through it
C28_ContextCarriesServer ==
    last.did \in Behaviours =>
        /\ GetServer(last.ctx) # "nil"
        /\ Reply(last.ctx) = "sent"

\* calls through a RateLimitMiddleware: the ticker keeps firing, and a goroutine
\* that can call or leave next does so
FairRate ==
    /\ Init
    /\ [][NextRate]_vars
    /\ WF_vars(Tick)
    /\ \A c \in Callers : WF_vars(RateNext(c)) /\ WF_vars(RateReturn(c))

\* C27: every call that enters the RateLimitMiddleware gets to invoke next, once
\* per call, and no more than one call gets past the ticker between two ticks
C27_RateLimitDelaysOnly ==
    /\ \A c \in Callers : (rate.st[c] \in {"waiting", "admitted"}) ~> (rate.st[c] = "called")
    /\ [](\A c \in Callers :
            /\ rate.st[c] = "called" => rate.nexts[c] = 1
            /\ rate.st[c] \in {"waiting", "admitted"} => rate.nexts[c] = 0)
    /\ [][\A c \in Callers :
            (rate.st[c] = "called" /\ rate'.st[c] # "called") => rate.nexts[c] = 1]_vars
    /\ [](rate.passed <= 1)

\* all callers have entered: one was let through by a tick and is inside next, the
\* others are parked in arrival order
C27_Witness ==
    /\ rate.st[2] = "called"
    /\ rate.nexts[2] = 1
    /\ rate.waiting = <<1, 3>>
    /\ rate.passed = 1

InitRace == RacedDispatcher /\ InitServer

InitTies == TiedDispatcher /\ InitServer

\* the dispatcher with many handlers of equal priority
SpecTies == InitTies /\ [][NextTies]_vars

\* C20: handlers of equal priority are invoked in the order in which they were
\* registered (in a dispatch that no registration interfered with)
C20_TiesKeepRegistrationOrder ==
    ~raced => \A i \in 1..Len(trace), j \in 1..Len(trace) :
                 (i < j /\ trace[i].priority = trace[j].priority)
                    => trace[i].seq < trace[j].seq

\* dispatches that follow one another
SpecShare == Init /\ [][NextShare]_vars

\* C37: after a dispatch whose handlers wrote metadata and set abort, no handler
\* of a later dispatch finds the metadata or the abort flag in its context
C37_ContextNotShared ==
    (last.did = "dispatch" /\ (last.set \/ last.aborted)) =>
        \A i \in 1..Len(trace) : ~trace[i].saw /\ ~trace[i].sawAbort

\* the earlier dispatch wrote metadata and aborted; the next dispatch of the same
\* event type has invoked its handler, which ran
C37_Witness ==
    /\ last.did = "dispatch"
    /\ last.set
    /\ last.aborted
    /\ dKey = "nil"
    /\ Len(trace) >= 1
    /\ trace[1].did = "set"
    /\ ~trace[1].saw

\* the read loop's synchronous dispatches in sequence
SpecOrder == Init /\ [][NextOrder]_vars

SpecTimeout == Init /\ [][NextTimeout]_vars

\* C19: within one dispatch at most one handler body is executing at any moment
\* (handler i+1 starts only after handler i has finished), whatever middlewares
\* are installed, TimeoutMiddleware included
C19_HandlersNeverOverlap == Cardinality(Executing) <= 1

SpecRace == InitRace /\ [][NextRace]_vars

\* the server's connection handling
SpecConn == Init /\ [][NextConn]_vars

\* the same, with every handler goroutine that is inside the accept or the
\* cleanup making progress (a goroutine that can run does run; the lock is only
\* ever held for a bounded stretch)
FairConn ==
    /\ SpecConn
    /\ \A c \in Conns :
          /\ WF_vars(AcceptInstall(c)) /\ WF_vars(AcceptMark(c))
          /\ WF_vars(Cleanup(c)) /\ WF_vars(CleanupMark(c))
          /\ WF_vars(CleanupClose(c))

\* the server's connection handling and CallAPI
SpecServer == Init /\ [][NextServer]_vars

\* CallAPI over a single connection
SpecCall == Init /\ [][NextCall]_vars

\* the read loop and CallAPI over a single connection
SpecRead == Init /\ [][NextRead]_vars

\* ------------------------------------------------------------------ properties
\* -- the dispatcher (SpecDispatch)

\* the registration numbers of the handlers kept under a key
SeqsUnder(k) == {handlers[k].arr[j].seq : j \in 1..Len(handlers[k].arr)}

\* a handler registered for type t is kept under key k
KeptUnderOwnType(t, k) == (t = "Message" => k = "Message") /\ (t = "any" => k = "nil")

\* C36: every handler list holds only handlers registered for its own type, a
\* dispatch invokes only handlers of the list of the dispatched event's type, and
\* a Register call changes no list but the one of its type
C36_OnlyOwnTypeInvoked ==
    /\ [](\A k \in EventTypes : \A j \in 1..Len(handlers[k].arr) :
            KeptUnderOwnType(handlers[k].arr[j].typ, k))
    /\ [](\A i \in 1..Len(trace) : trace[i].seq \in SeqsUnder(dKey))
    /\ [](\A k1, k2 \in EventTypes : k1 # k2 => SeqsUnder(k1) \cap SeqsUnder(k2) = {})
    /\ [][\A k \in EventTypes :
            handlers'[k] # handlers[k] => (k = regKey \/ k = regKey')]_vars

\* a handler is registered for each of two types; the dispatch of a Message event
\* has finished after invoking one handler
C36_Witness ==
    /\ Len(handlers["nil"].arr) = 1
    /\ Len(handlers["Message"].arr) = 1
    /\ dKey = "Message"
    /\ dPc = "done"
    /\ Len(trace) = 1
    /\ trace[1].seq = handlers["Message"].arr[1].seq

\* GetHandlerCount(eventType): len(d.handlers[eventType])
GetHandlerCount(k) == Len(handlers[k].arr)

\* C38: each Register call adds exactly one entry to the list of its event type
\* whatever name it carries, no entry is ever lost, and nothing else changes a
\* handler count
C38_RegisterAlwaysAdds ==
    /\ [][nreg' = nreg + 1 =>
            \A k \in EventTypes :
                Len(handlers'[k].arr) = GetHandlerCount(k) + (IF k = regKey' THEN 1 ELSE 0)]_vars
    /\ [][nreg' = nreg =>
            \A k \in EventTypes : Len(handlers'[k].arr) = GetHandlerCount(k)]_vars
    /\ [](\A k \in EventTypes : GetHandlerCount(k) = Cardinality(SeqsUnder(k)))
    /\ [](UNION {SeqsUnder(k) : k \in EventTypes} = 1..nreg)

\* two Register calls with the same name and the same event type have returned:
\* two entries
C38_Witness ==
    /\ mu = "free"
    /\ nreg = 2
    /\ GetHandlerCount("nil") = 2
    /\ handlers["nil"].arr[1].name = handlers["nil"].arr[2].name
    /\ handlers["nil"].arr[1].seq # handlers["nil"].arr[2].seq

\* C1: handlers registered for one event type are invoked in ascending priority:
\* a handler with a lower priority number is never invoked after one with a
\* higher number in the same dispatch, whatever the registration order (for a
\* dispatch no register interfered with); the stored list is sorted whenever the
\* dispatcher's lock is free.
C1_PriorityOrder ==
    /\ ~raced => \A i \in 1..Len(trace), j \in 1..Len(trace) :
                    i < j => trace[i].priority <= trace[j].priority
    /\ mu = "free" =>
          \A key \in EventTypes :
              \A i \in 1..Len(handlers[key].arr), j \in 1..Len(handlers[key].arr) :
                  i < j => handlers[key].arr[i].priority <= handlers[key].arr[j].priority

\* a finished dispatch that invoked the later-registered handler first
C1_Witness ==
    /\ dPc = "done" /\ ~raced
    /\ Len(trace) = 2
    /\ trace[1].priority < trace[2].priority
    /\ trace[1].seq > trace[2].seq

\* C2: once a handler has called Abort on its context, no handler after it in
\* priority order is invoked in that dispatch.
C2_AbortStopsLaterHandlers ==
    \A i \in 1..Len(trace) :
        (trace[i].did = "setAbort" /\ trace[i].aborted) => i = Len(trace)

\* C3: a metadata key a handler Set is seen by Get in every handler that runs
\* after it in the same dispatch.
C3_MetadataSeenByLaterHandlers ==
    \A i \in 1..Len(trace), j \in 1..Len(trace) :
        (i < j /\ trace[i].did \in {"set", "setAbort"} /\ trace[j].did \in Behaviours)
            => trace[j].saw

\* C10: a handler returning an error does not end the chain: every handler of the
\* list taken by Dispatch is invoked, and each non-nil result of invokeHandler is
\* handed to the error sink, in order, with the name of the handler it came from.
C10_ErrorsGoToSink ==
    LET failed == SelectSeq(trace, LAMBDA e : e.err # "nil")
    IN  /\ sink = [i \in 1..Len(failed) |-> failed[i].name]
        /\ \A i \in 1..Len(trace) : trace[i].did = "err" => trace[i].err = "err"
        /\ dPc = "running" => Len(trace) = dIdx - 1 /\ dIdx <= wrappers.len
        /\ dPc = "done" => Len(trace) = wrappers.len

\* a finished dispatch whose first handler returned an error and whose second ran
C10_Witness ==
    /\ dPc = "done"
    /\ Len(trace) = 2
    /\ trace[1].did = "err" /\ trace[2].did = "ok"
    /\ trace[1].name # trace[2].name
    /\ sink = <<trace[1].name>>

\* C11: a handler that panics has its panic turned into an error that reaches
\* the error sink under the handler's name, and the handlers after it are still
\* invoked.
C11_PanicReportedToSink ==
    /\ \A i \in 1..Len(trace) :
          trace[i].did \in {"panicErr", "panicStr"} =>
              (trace[i].err # "nil"
               /\ \E j \in 1..Len(sink) : sink[j] = trace[i].name)
    /\ dPc = "done" => Len(trace) = wrappers.len

\* C12: whenever the Recovery middleware recovers a panic of the downstream
\* chain, whatever its value, the handler invocation yields a non-nil error.
C12_RecoveryYieldsError ==
    \A i \in 1..Len(trace) : trace[i].recovered => trace[i].err # "nil"

\* C18: with a registration running next to a dispatch, the handlers the
\* dispatch walks are in priority order and each is invoked at most once.
C18_DispatchWalksSortedSnapshot ==
    /\ \A i \in 1..Len(trace), j \in 1..Len(trace) :
          i < j => trace[i].priority <= trace[j].priority
    /\ \A i \in 1..Len(trace), j \in 1..Len(trace) :
          i # j => trace[i].seq # trace[j].seq

\* -- CallAPI (SpecServer)

\* C4: a call whose response was matched by a read loop before the call's timer
\* fired returns that response.
C4_ResponseInTimeIsReturned ==
    \A k \in Calls : (cPc[k] = "returned" /\ inTime[k]) => result[k] \in Statuses

\* what CallAPI can return: a response (its status) or one of its errors
Responses == Statuses
CallErrors == {"not connected", "marshal failed", "no active connection",
               "send failed", "timeout"}

\* the read loop with handlers that call the API
SpecLoop == Init /\ [][NextLoop]_vars

FairCall ==
    /\ Init
    /\ [][NextServer]_vars
    /\ \A k \in Calls : WF_vars(TimerFire(k)) /\ WF_vars(CallTimeout(k))

\* C33: a CallAPI that has written its request returns: it waits no longer than
\* until its timer fires, and then its next step is a return, whatever happens to
\* the connection and whether or not the peer answers
C33_CallReturns ==
    /\ \A k \in Calls : (cPc[k] = "wait") ~> (cPc[k] = "returned")
    /\ [][\A k \in Calls :
            (cPc[k] = "expired" /\ cPc'[k] # "expired") => cPc'[k] = "returned"]_vars
    /\ [](\A k \in Calls : cPc[k] = "expired" => ENABLED CallTimeout(k))

\* call 1 returned the timeout error: nobody answered it and its connection has
\* been replaced
C33_Witness ==
    /\ result[1] = "timeout"
    /\ ~inTime[1]
    /\ respChan[1] = EmptyChan
    /\ activeClient = 2
    /\ closed[1]

\* C34: whenever no connection handler holds the lock, IsConnected() is true
\* exactly when an active connection is installed
C34_FlagMatchesReference ==
    clientMu = NoConn => (IsConnected <=> activeClient # NoConn)

\* connection 1 was replaced by connection 2 and has finished its cleanup, which
\* left both the reference and the flag to connection 2
C34_Witness ==
    /\ clientMu = NoConn
    /\ hPc[1] = "done"
    /\ hPc[2] = "read"
    /\ activeClient = 2
    /\ IsConnected

\* C32: a CallAPI that has passed the connected check and loads a nil active
\* connection returns "no active connection"; a CallAPI about to write, or
\* waiting after its write, holds a connection
C32_NilConnectionFailsFast ==
    /\ [][\A k \in Calls :
            (cPc[k] = "load" /\ cPc'[k] # "load" /\ activeClient = NoConn)
                => (cPc'[k] = "returned" /\ result'[k] = "no active connection")]_vars
    /\ [](\A k \in Calls :
            /\ cPc[k] \in {"write", "wait", "expired"} => conn[k] # NoConn
            /\ result[k] = "no active connection" => k \notin pendingCalls)

\* the connection went away between the connected check of call 1 and its load
\* of the active connection
C32_Witness ==
    /\ result[1] = "no active connection"
    /\ cPc[1] = "returned"
    /\ hPc[1] \in {"unmark", "close", "done"}

\* the CallAPI invocations that have stored their entry and not yet returned
Outstanding == {k \in Calls : cPc[k] \in {"load", "write", "wait", "expired"}}

\* C31: the pending table holds only tokens of CallAPI invocations that have not
\* returned, and whatever a CallAPI returned (any of its errors or a response)
\* its token has no entry
C31_PendingOnlyOutstanding ==
    /\ pendingCalls \subseteq Outstanding
    /\ \A k \in Calls :
            result[k] \in CallErrors \cup Responses => k \notin pendingCalls

\* one call came back with the timeout error, the other with a response, over a
\* connection that has been replaced since
C31_Witness ==
    /\ result[1] = "timeout"
    /\ result[2] \in Responses
    /\ activeClient = 2
    /\ pendingCalls = {}

\* C40: the read loop's send of a response goes through at once: a response
\* channel is sent on once, into its free slot, by the step that takes the entry
\* out of the table and closes the channel; the one-second fallback is never
\* taken; a closed channel still holds its value when CallAPI receives, so that
\* CallAPI never gets a nil response
C40_SendNeverBlocks ==
    /\ [](~fallback)
    /\ [](\A k \in Calls :
            /\ result[k] # "nil response"
            /\ Len(respChan[k].buf) <= 1
            /\ respChan[k].closed <=> Len(respChan[k].buf) = 1)
    /\ [][\A k \in Calls :
            /\ (respChan'[k].closed /\ ~respChan[k].closed)
                    => (k \in pendingCalls /\ k \notin pendingCalls')
            /\ (respChan[k].closed /\ respChan'[k] # respChan[k])
                    => (respChan'[k] = EmptyChan /\ result'[k] \in Responses \cup {"timeout"})]_vars

\* the response to call 1 was sent while nobody received (its timer had fired),
\* a second message with the same token found no entry and was dropped, and
\* call 2 has returned the response sent to it
C40_Witness ==
    /\ cPc[1] = "expired"
    /\ respChan[1].closed
    /\ Len(respChan[1].buf) = 1
    /\ dropped
    /\ result[2] \in Responses
    /\ ~fallback

\* C30: the entry of a call leaves the table once and never comes back, it is
\* gone when CallAPI returns, CallAPI returns one outcome (a response or an
\* error), and a timeout never removes an entry that a read loop has taken
C30_EntryRemovedOnce ==
    /\ [](\A k \in Calls :
            /\ cPc[k] = "returned" => k \notin pendingCalls
            /\ cPc[k] = "returned" => result[k] \in Responses \cup CallErrors
            /\ cPc[k] # "returned" => result[k] = "none"
            /\ (k \in pendingCalls) => (~respChan[k].closed /\ respChan[k].buf = <<>>))
    /\ [][\A k \in Calls :
            /\ (k \notin pendingCalls /\ cPc[k] # "idle") => k \notin pendingCalls'
            /\ result[k] # "none" => result'[k] = result[k]
            /\ (respChan[k].closed /\ result'[k] = "timeout" /\ result[k] = "none")
                    => (k \notin pendingCalls /\ pendingCalls' = pendingCalls)]_vars

\* a read loop has taken the entry of call 1 and sent the response, the call's
\* timer has fired: both branches of the select are ready
C30_Witness ==
    /\ cPc[1] = "expired"
    /\ respChan[1].closed
    /\ Len(respChan[1].buf) = 1
    /\ 1 \notin pendingCalls

C6_LateResponseDropped ==
    [][/\ \A k \in Calls :
            respChan'[k].buf # respChan[k].buf /\ respChan'[k].buf # <<>>
                => (k \in pendingCalls /\ k \notin pendingCalls'
                    /\ respChan[k].buf = <<>>)
       /\ \A k \in Calls :
            (k \notin pendingCalls /\ cPc[k] # "idle") => k \notin pendingCalls'
       /\ (dropped' /\ ~dropped)
            => (pendingCalls' = pendingCalls /\ respChan' = respChan
                /\ cPc' = cPc /\ result' = result)]_vars

\* a response for a call that already got one was dropped while another call
\* is still waiting, untouched
C6_Witness ==
    \E k \in Calls, j \in Calls :
        /\ dropped /\ result[k] \in Statuses
        /\ j # k /\ cPc[j] = "wait" /\ j \in pendingCalls /\ respChan[j] = EmptyChan

\* C7: CallAPI started while connected is false returns the "not connected"
\* error at once: no entry is stored, no channel touched, nothing written.
C7_NotConnectedFailsFast ==
    /\ [](\A k \in Calls : result[k] = "not connected" =>
              (cPc[k] = "returned" /\ k \notin pendingCalls))
    /\ [][\A k \in Calls :
            (cPc[k] = "idle" /\ cPc'[k] # "idle" /\ ~connected)
            => (cPc'[k] = "returned" /\ result'[k] = "not connected"
                /\ pendingCalls' = pendingCalls /\ respChan' = respChan
                /\ conn' = conn)]_vars

\* a call refused for lack of a connection while another call's entry is pending
C7_Witness ==
    \E k \in Calls, j \in Calls :
        /\ result[k] = "not connected"
        /\ j # k /\ j \in pendingCalls

\* C13: a response whose status is neither "ok" nor "async" comes back from
\* CallAPI together with a non-nil error; one whose status is "ok" or "async"
\* comes back with a nil error. Either way the call returns the response it got.
C13_StatusDecidesError ==
    /\ [](\A k \in Calls :
            result[k] \in Statuses =>
                /\ cPc[k] = "returned"
                /\ result[k] \in {"ok", "async"} => respErr[k] = "nil"
                /\ result[k] \notin {"ok", "async"} => respErr[k] \notin {"nil", "none"})
    /\ [][\A k \in Calls :
            (cPc[k] # "returned" /\ cPc'[k] = "returned" /\ respChan[k].buf # <<>>
                /\ result'[k] # "timeout")
            => result'[k] = Head(respChan[k].buf)]_vars

\* one call came back with a failed response and its error, another with an
\* async response and no error
C13_Witness ==
    \E k \in Calls, j \in Calls :
        /\ result[k] = "failed" /\ respErr[k] = "API call failed"
        /\ result[j] = "async" /\ respErr[j] = "nil"

\* C17: CallAPI writes its request only to the connection that is the active one
\* at the moment of the write, and never to one that was relinquished, replaced
\* or closed meanwhile.
C17_WriteOnlyToActiveConnection ==
    [][\A k \in Calls :
          (cPc[k] = "write" /\ cPc'[k] = "wait")
          => (activeClient = conn[k] /\ ~closed[conn[k]])]_vars

\* -- the read loop (SpecRead)

\* C14: a message carrying a non-empty echo is handled as a call response only:
\* it is never decoded as an event or handed to Dispatch.
C14_EchoNeverAnEvent ==
    rlog.echo => rlog.as = "response"

\* C15: a non-response message whose post_type is unknown, empty or missing is a
\* decode error: it is not handed to Dispatch, and reading it leaves the
\* connection, its read loop, the pending calls and every call as they were.
C15_UnknownPostTypeDropped ==
    /\ [](rlog.as = "dispatch" =>
              rlog.pt \in {"message", "notice", "request", "meta_event"})
    /\ []((rlog.as \in {"dispatch", "error"}
              /\ rlog.pt \notin {"message", "notice", "request", "meta_event"})
            => rlog.as = "error")
    /\ [][(rlog' # rlog /\ rlog'.as = "error")
            => (/\ hPc' = hPc /\ closed' = closed
                /\ activeClient' = activeClient /\ connected' = connected
                /\ pendingCalls' = pendingCalls /\ respChan' = respChan
                /\ cPc' = cPc /\ result' = result)]_vars

\* a message with an unknown post_type was dropped while the connection that
\* read it is the active one, its loop still reading, a call still pending
C15_Witness ==
    /\ rlog.as = "error" /\ rlog.pt = "unknown" /\ ~rlog.echo
    /\ \E c \in Conns : hPc[c] = "read" /\ activeClient = c /\ connected
    /\ \E k \in Calls : k \in pendingCalls /\ cPc[k] = "wait"

\* -- connections (SpecConn)

\* C8: a connection that was replaced while its read loop runs has been closed;
\* the cleanup of a connection that is no longer the active one leaves
\* activeClient and connected alone; activeClient is cleared, and connected set
\* to false, only by the cleanup of the connection that was still the active one.
C8_SupersededCleanupIsHarmless ==
    /\ [](\A c \in Conns :
            (hPc[c] \in {"read", "cleanup"} /\ activeClient # c) => closed[c])
    /\ [][\A c \in Conns :
            (hPc[c] = "cleanup" /\ hPc'[c] # "cleanup" /\ activeClient # c)
            => (activeClient' = activeClient /\ connected' = connected)]_vars
    /\ [][(activeClient # NoConn /\ activeClient' = NoConn)
            => (hPc[activeClient] = "cleanup"
                /\ hPc'[activeClient] = "unmark")]_vars
    /\ [][(connected /\ ~connected')
            => (clientMu # NoConn /\ hPc[clientMu] = "unmark"
                /\ activeClient = NoConn)]_vars

\* the replaced connection has run its cleanup while its successor is active
C8_Witness ==
    \E c \in Conns, n \in Conns :
        /\ c # n
        /\ hPc[c] = "close" /\ closed[c]
        /\ activeClient = n /\ connected /\ hPc[n] = "read" /\ ~closed[n]

\* C16: a read failure on the active connection ends in the connection being
\* relinquished: its handler runs the cleanup to the end, after which it is not
\* the active connection; the cleanup of the active connection leaves
\* activeClient nil and connected false, and they stay so until a connection
\* is accepted.
C16_ReadFailureRelinquishes ==
    /\ \A c \in Conns : (hPc[c] = "cleanup") ~> (hPc[c] = "done")
    /\ [](\A c \in Conns : hPc[c] \in {"unmark", "close", "done"} => activeClient # c)
    /\ []((clientMu = NoConn /\ activeClient = NoConn) => ~connected)
    /\ [][\A c \in Conns :
            (hPc[c] = "cleanup" /\ hPc'[c] # "cleanup" /\ activeClient = c)
            => (hPc'[c] = "unmark" /\ activeClient' = NoConn)]_vars
    /\ [][\A c \in Conns :
            (hPc[c] = "unmark" /\ hPc'[c] # "unmark")
            => (~connected' /\ activeClient' = NoConn /\ clientMu' = NoConn)]_vars
    /\ [][(activeClient = NoConn /\ activeClient' # NoConn)
            => hPc[activeClient'] = "install"]_vars
    /\ [][(~connected /\ connected') => hPc[activeClient] = "mark"]_vars

\* the first connection failed while active and was relinquished, and no other
\* connection has come yet
C16_Witness ==
    /\ hPc[1] = "done" /\ closed[1]
    /\ \A c \in Conns : c # 1 => hPc[c] = "new"
    /\ activeClient = NoConn /\ ~connected /\ clientMu = NoConn

\* C9: at most one connection is live: a new connection is installed only after
\* the previous active one was closed, install and connected = true happen under
\* one hold of the lock, and with the lock free an active connection means
\* connected.
C9_SingleActiveConnection ==
    /\ \A c \in Conns : hPc[c] = "install" =>
          (clientMu = c /\ (activeClient = NoConn \/ closed[activeClient]))
    /\ \A c \in Conns : hPc[c] = "mark" => (clientMu = c /\ activeClient = c)
    /\ Cardinality({c \in Conns : hPc[c] = "read" /\ ~closed[c]}) <= 1
    /\ \A c \in Conns : (hPc[c] = "read" /\ ~closed[c]) => activeClient = c
    /\ (clientMu = NoConn /\ activeClient # NoConn) => connected

\* a new connection about to be installed over an active one, already closed
C9_Witness ==
    \E c \in Conns, n \in Conns :
        /\ c # n
        /\ hPc[n] = "install" /\ activeClient = c /\ closed[c] /\ hPc[c] = "read"

====
